---- MODULE Spec2Model ----
(***************************************************************************)
(* State-machine model of the HellaShipping authentication API:            *)
(*   src/src/routes/auth.ts  POST /login and POST /users handlers          *)
(*   src/src/server.ts       startServer                                   *)
(*   src/api/index.ts        the serverless entry point                    *)
(* Every await of a handler is one step, so the steps of concurrent        *)
(* requests interleave exactly where the event loop can switch tasks.      *)
(***************************************************************************)
EXTENDS Integers, FiniteSets, Sequences, TLC

\* ------------------------------------------------------------------ bounds
\* Number of request slots (requests handled concurrently or one after another).
MaxReqs == 2
\* Number of entry-point invocations of one process.
MaxCalls == 2

\* ------------------------------------------------------------ input domains
\* Request bodies that passed the route's schema (valid email, password >= 6).
Emails == {"a@x.com", "b@x.com"}
Passwords == {"secret1", "wrong12"}
\* name is optional and only stored with the row.
Names == {"Ann"}
\* Salts bcryptjs may draw for a new hash.
Salts == {"s1", "s2"}

Reqs == 1..MaxReqs

\* ----------------------------------------------------------- JS null/option
Null == {}
Some(x) == {x}
The(s) == CHOOSE x \in s : TRUE

\* ------------------------------------------------------------------ bcryptjs
\* Cost factor passed to hash().
HashCost == 8

\* The one-way digest bcrypt computes from a password under a salt and a cost.
bcrypt(password, salt, cost) == <<"$2a$", cost, salt, password>>

\* hash(password, 8): a fresh salt, and the digest under it.
hash(password, cost, salt) ==
  [cost |-> cost, salt |-> salt, digest |-> bcrypt(password, salt, cost)]

\* A comparison that recomputes the digest without the stored salt.
compare_nosalt(password, stored) ==
  bcrypt(password, "", stored.cost) = stored.digest

\* compare(password, stored): recompute under the stored salt and cost.
compare(password, stored) ==
  bcrypt(password, stored.salt, stored.cost) = stored.digest

\* ---------------------------------------------------------------- constants
\* expiresIn: '7d', in seconds.
SevenDays == 7 * 24 * 60 * 60
\* maxAge: 60 * 60 * 24 * 7
CookieMaxAge == 60 * 60 * 24 * 7

NoError == "none"
\* PostgREST's answer of .single() when the filter matches no row or several.
NotSingle == "PGRST116"
\* Postgres unique_violation.
UniqueViolationCode == "23505"
\* The store could not be reached or failed (transport error, timeout, 5xx).
Unavailable == "unavailable"

VARIABLES
  users,        \* the rows of table 'users' in the hosted store
  reqs,         \* per request slot: the handler's position and its locals
  log,          \* what console.error wrote
  production,   \* process.env.NODE_ENV === 'production'
  app,          \* the module-level Fastify instance of server.ts
  appInstance,  \* api/index.ts: the cached instance (Null while unset)
  calls,        \* per invocation of the entry point: position and outcome
  exitCode,     \* Null while the process runs, Some(code) after process.exit
  mainModule    \* require.main === module: server.ts is the process's entry

vars ==
  <<users, reqs, log, production, app, appInstance, calls, exitCode, mainModule>>
authVars == <<users, reqs, log, production>>
serverVars == <<app, appInstance, calls, exitCode, mainModule>>

\* ------------------------------------------------------------ the user store
\* .select('id, email, password')
LoginColumns(u) == [id |-> u.id, email |-> u.email, password |-> u.password]
\* .select('id')
IdColumn(u) == [id |-> u.id]

\* .single(): the one row, or an error when there is none or more than one.
single(rows) ==
  IF Cardinality(rows) = 1
  THEN [data |-> rows, error |-> NoError]
  ELSE [data |-> Null, error |-> NotSingle]

StoreUnavailable == [data |-> Null, error |-> Unavailable]

\* The lookup without its .eq('email', email) filter.
SelectLogin_nofilter(email) ==
  { single({LoginColumns(u) : u \in users}), StoreUnavailable }

\* from('users').select('id, email, password').eq('email', email).single()
SelectLogin(email) ==
  { single({LoginColumns(u) : u \in {v \in users : v.email = email}}),
    StoreUnavailable }

\* from('users').select('id').eq('email', email).single()
SelectId(email) ==
  { single({IdColumn(u) : u \in {v \in users : v.email = email}}),
    StoreUnavailable }

\* Whether the table holds a row with this email.
HasRow(email) == \E u \in users : u.email = email

\* The table's unique constraint on email: creation fails if a row with that
\* email exists.
EmailTaken(email) == \E u \in users : u.email = email

\* The id the store assigns to a new row.
NextId == Cardinality(users) + 1

NewRow(name, email, password_hash) ==
  [id |-> NextId, name |-> name, email |-> email, password |-> password_hash]

\* from('users').insert({name, email, password}).select('id').single():
\* the answer, and the rows the insert adds.
InsertUser(name, email, password_hash) ==
  { [data |-> Null, error |-> Unavailable, added |-> {}] }
  \cup
  ( IF EmailTaken(email)
    THEN { [data |-> Null, error |-> UniqueViolationCode, added |-> {}] }
    ELSE { [data |-> Some(IdColumn(NewRow(name, email, password_hash))),
            error |-> NoError,
            added |-> {NewRow(name, email, password_hash)}] } )

\* ------------------------------------------------------------------ replies
NoReply == [status |-> 0, body |-> [pending |-> TRUE], cookies |-> {}]

send(status, body, cookies) ==
  [status |-> status, body |-> body, cookies |-> cookies]

\* reply.status(401).send(...) of the lookup branch
UserNotFoundReply ==
  send(401, [message |-> "Invalid credentials or user not found."], {})

\* reply.status(401).send(...) of the compare branch
WrongPasswordReply ==
  send(401, [message |-> "Invalid credentials."], {})

\* reply.jwtSign({ userId }, { sign: { expiresIn: '7d' } })
jwtSign(userId) == [payload |-> [userId |-> userId], expiresIn |-> SevenDays]

\* A cookie whose maxAge is given in milliseconds.
AuthCookie_ms(token) ==
  [name |-> "auth_token", value |-> token, path |-> "/", httpOnly |-> TRUE,
   secure |-> production, maxAge |-> CookieMaxAge * 1000]

\* reply.setCookie('auth_token', token, {...})
AuthCookie(token) ==
  [name |-> "auth_token", value |-> token, path |-> "/", httpOnly |-> TRUE,
   secure |-> production, maxAge |-> CookieMaxAge]

LoginSuccessReply(token) ==
  send(200, [message |-> "Login successful", token |-> token],
       {AuthCookie(token)})

DuplicateUserReply ==
  send(409, [message |-> "User with this email already exists."], {})

CreationFailedReply ==
  send(409, [message |-> "Failed to create user."], {})

\* The framework's answer to a handler that throws.
InternalErrorReply ==
  send(500, [message |-> "Internal Server Error"], {})

\* reply.status(201).send({ userId: data.id }); reading data.id throws when
\* data is null.
CreatedReply(data) ==
  IF data = Null THEN InternalErrorReply
  ELSE send(201, [userId |-> The(data).id], {})

\* ------------------------------------------------------- handler conditions
\* if (error || !user)
LookupRejected(res) == res.error # NoError \/ res.data = Null

\* A handler that never takes the mismatch branch.
PasswordRejected_never(passwordMatch) == FALSE

\* if (!passwordMatch)
PasswordRejected(passwordMatch) == ~passwordMatch

\* if (existingUser)
UserExists(existingUser) == existingUser # Null

\* A handler that never takes the insert-error branch.
InsertRejected_never(res) == FALSE

\* if (error || !data)
InsertRejected(res) == res.error # NoError \/ res.data = Null

\* ----------------------------------------------------------------- requests
NoResult == [data |-> Null, error |-> NoError]
NoBody == [name |-> "", email |-> "", password |-> ""]
NoHash == [cost |-> 0, salt |-> "", digest |-> <<>>]

IdleReq ==
  [pc |-> "idle", kind |-> "none", body |-> NoBody, known |-> FALSE,
   lookup |-> NoResult, passwordMatch |-> FALSE, password_hash |-> NoHash,
   inserted |-> NoResult, token |-> Null, reply |-> NoReply]

\* A request reaches its handler: request.body is destructured.  `known`
\* records whether the email had a row at that moment.
Arrive(r, kind, body) ==
  /\ reqs[r].pc = "idle"
  /\ \A q \in Reqs : q < r => reqs[q].pc # "idle"
  /\ reqs' = [reqs EXCEPT ![r] =
       [IdleReq EXCEPT !.pc = "lookup", !.kind = kind, !.body = body,
                       !.known = HasRow(body.email)]]
  /\ UNCHANGED <<users, log, production, serverVars>>

\* POST /login: await the store lookup, then the first branch.
LoginLookup(r) ==
  /\ reqs[r].kind = "login" /\ reqs[r].pc = "lookup"
  /\ \E res \in SelectLogin(reqs[r].body.email) :
       reqs' = [reqs EXCEPT ![r] =
         IF LookupRejected(res)
         THEN [@ EXCEPT !.lookup = res, !.pc = "done",
                         !.reply = UserNotFoundReply]
         ELSE [@ EXCEPT !.lookup = res, !.pc = "compare"]]
  /\ UNCHANGED <<users, log, production, serverVars>>

\* POST /login: await compare(password, user.password), then the second branch.
LoginCompare(r) ==
  /\ reqs[r].kind = "login" /\ reqs[r].pc = "compare"
  /\ LET match == compare(reqs[r].body.password, The(reqs[r].lookup.data).password)
     IN reqs' = [reqs EXCEPT ![r] =
          IF PasswordRejected(match)
          THEN [@ EXCEPT !.passwordMatch = match, !.pc = "done",
                          !.reply = WrongPasswordReply]
          ELSE [@ EXCEPT !.passwordMatch = match, !.pc = "sign"]]
  /\ UNCHANGED <<users, log, production, serverVars>>

\* POST /login: await reply.jwtSign, set the cookie, send 200.
LoginSign(r) ==
  /\ reqs[r].kind = "login" /\ reqs[r].pc = "sign"
  /\ LET token == jwtSign(The(reqs[r].lookup.data).id)
     IN reqs' = [reqs EXCEPT ![r] =
          [@ EXCEPT !.token = Some(token), !.pc = "done",
                    !.reply = LoginSuccessReply(token)]]
  /\ UNCHANGED <<users, log, production, serverVars>>

\* POST /users: await the store lookup (only data is read), then the branch.
RegisterLookup(r) ==
  /\ reqs[r].kind = "register" /\ reqs[r].pc = "lookup"
  /\ \E res \in SelectId(reqs[r].body.email) :
       reqs' = [reqs EXCEPT ![r] =
         IF UserExists(res.data)
         THEN [@ EXCEPT !.lookup = res, !.pc = "done",
                         !.reply = DuplicateUserReply]
         ELSE [@ EXCEPT !.lookup = res, !.pc = "hash"]]
  /\ UNCHANGED <<users, log, production, serverVars>>

\* POST /users: await hash(password, 8).
RegisterHash(r) ==
  /\ reqs[r].kind = "register" /\ reqs[r].pc = "hash"
  /\ \E salt \in Salts :
       reqs' = [reqs EXCEPT ![r] =
         [@ EXCEPT !.password_hash = hash(reqs[r].body.password, HashCost, salt),
                   !.pc = "insert"]]
  /\ UNCHANGED <<users, log, production, serverVars>>

\* POST /users: await the insert, then log and 409, or 201.
RegisterInsert(r) ==
  /\ reqs[r].kind = "register" /\ reqs[r].pc = "insert"
  /\ \E res \in InsertUser(reqs[r].body.name, reqs[r].body.email,
                           reqs[r].password_hash) :
       LET answer == [data |-> res.data, error |-> res.error]
       IN /\ users' = users \cup res.added
          /\ IF InsertRejected(answer)
             THEN /\ log' = log \cup {[what |-> "Supabase Error:", who |-> r,
                                       error |-> answer.error]}
                  /\ reqs' = [reqs EXCEPT ![r] =
                       [@ EXCEPT !.inserted = answer, !.pc = "done",
                                 !.reply = CreationFailedReply]]
             ELSE /\ log' = log
                  /\ reqs' = [reqs EXCEPT ![r] =
                       [@ EXCEPT !.inserted = answer, !.pc = "done",
                                 !.reply = CreatedReply(answer.data)]]
  /\ UNCHANGED <<production, serverVars>>

Bodies == [name : Names, email : Emails, password : Passwords]

NextAuth ==
  \E r \in Reqs :
    \/ \E kind \in {"login", "register"}, body \in Bodies : Arrive(r, kind, body)
    \/ LoginLookup(r)
    \/ LoginCompare(r)
    \/ LoginSign(r)
    \/ RegisterLookup(r)
    \/ RegisterHash(r)
    \/ RegisterInsert(r)

\* A store holding nothing yet, or one user registered by an earlier process.
SeedUser ==
  [id |-> 1, name |-> "Ann", email |-> "a@x.com",
   password |-> hash("secret1", HashCost, "s1")]

InitAuth ==
  /\ users \in {{}, {SeedUser}}
  /\ reqs = [r \in Reqs |-> IdleReq]
  /\ log = {}
  /\ production \in BOOLEAN

\* -------------------------------------------------------------- startServer
Calls == 1..MaxCalls

\* The awaits of startServer's try block, in order.
Stages == <<"cors", "jwt", "cookie", "swagger", "import", "scalar", "authRoutes">>
\* The stages that are app.register(plugin) calls.
Plugins == {"cors", "jwt", "cookie", "swagger", "scalar", "authRoutes"}

FreshApp ==
  [registered |-> [p \in Plugins |-> 0], health |-> 0, listening |-> FALSE]

IdleCall ==
  [pc |-> "idle", started |-> FALSE, isServerless |-> FALSE,
   listenCalled |-> FALSE, error |-> FALSE, returned |-> Null]

\* if (!isServerless) await app.listen(...)
ListenWanted(isServerless) == ~isServerless

\* A catch block that never exits.
ExitWanted_never(isServerless) == FALSE

\* catch: if (!isServerless) process.exit(1)
ExitWanted(isServerless) == ~isServerless

\* if (!appInstance)
StartWanted(instance) == instance = Null

\* catch (error): console.error, then process.exit(1) or throw error.
Catch(c) ==
  /\ log' = log \cup {[what |-> "Server startup failed:", who |-> c,
                       error |-> "startup"]}
  /\ IF ExitWanted(calls[c].isServerless)
     THEN /\ exitCode' = Some(1)
          /\ calls' = [calls EXCEPT ![c] = [@ EXCEPT !.pc = "exited", !.error = TRUE]]
     ELSE /\ exitCode' = exitCode
          /\ calls' = [calls EXCEPT ![c] = [@ EXCEPT !.pc = "thrown", !.error = TRUE]]

\* if (require.main === module) startServer()
RunMain(c) ==
  /\ exitCode = Null /\ mainModule
  /\ c = 1 /\ calls[c].pc = "idle"
  /\ calls' = [calls EXCEPT ![c] =
       [@ EXCEPT !.pc = Stages[1], !.started = TRUE, !.isServerless = FALSE]]
  /\ UNCHANGED <<authVars, app, appInstance, exitCode, mainModule>>

\* handler(req, res) -> getServer(): start the server unless an instance is cached.
Invoke(c) ==
  /\ exitCode = Null /\ ~mainModule
  /\ calls[c].pc = "idle"
  /\ \A d \in Calls : d < c => calls[d].pc # "idle"
  /\ calls' = [calls EXCEPT ![c] =
       IF StartWanted(appInstance)
       THEN [@ EXCEPT !.pc = Stages[1], !.started = TRUE, !.isServerless = TRUE]
       ELSE [@ EXCEPT !.pc = "ready", !.returned = appInstance]]
  /\ UNCHANGED <<authVars, app, appInstance, exitCode, mainModule>>

\* After the last await of the plugin section: app.get('/health'), then
\* app.listen in non-serverless mode, or return app.
AfterRoutes(c) ==
  IF ListenWanted(calls[c].isServerless)
  THEN [calls[c] EXCEPT !.pc = "listen", !.listenCalled = TRUE]
  ELSE [calls[c] EXCEPT !.pc = "returned", !.returned = Some("app")]

\* One await of the plugin section resolves.
StageOk(c) ==
  /\ exitCode = Null
  /\ \E i \in 1..Len(Stages) :
       /\ calls[c].pc = Stages[i]
       /\ app' = [app EXCEPT
            !.registered = IF Stages[i] \in Plugins
                           THEN [@ EXCEPT ![Stages[i]] = @ + 1] ELSE @,
            !.health = IF i = Len(Stages) THEN @ + 1 ELSE @]
       /\ calls' = [calls EXCEPT ![c] =
            IF i = Len(Stages) THEN AfterRoutes(c)
            ELSE [@ EXCEPT !.pc = Stages[i + 1]]]
  /\ UNCHANGED <<authVars, appInstance, exitCode, mainModule>>

\* One await of the plugin section rejects: the catch block runs.
StageFails(c) ==
  /\ exitCode = Null
  /\ calls[c].pc \in {Stages[i] : i \in 1..Len(Stages)}
  /\ Catch(c)
  /\ UNCHANGED <<users, reqs, production, app, appInstance, mainModule>>

\* await app.listen({ port, host }) resolves: return app.
ListenOk(c) ==
  /\ exitCode = Null
  /\ calls[c].pc = "listen"
  /\ app' = [app EXCEPT !.listening = TRUE]
  /\ calls' = [calls EXCEPT ![c] = [@ EXCEPT !.pc = "returned", !.returned = Some("app")]]
  /\ UNCHANGED <<authVars, appInstance, exitCode, mainModule>>

\* await app.listen({ port, host }) rejects: the catch block runs.
ListenFails(c) ==
  /\ exitCode = Null
  /\ calls[c].pc = "listen"
  /\ Catch(c)
  /\ UNCHANGED <<users, reqs, production, app, appInstance, mainModule>>

\* getServer resumes: appInstance = await startServer(true); return appInstance
GetServerResume(c) ==
  /\ exitCode = Null
  /\ calls[c].isServerless /\ calls[c].pc = "returned"
  /\ appInstance' = calls[c].returned
  /\ calls' = [calls EXCEPT ![c] = [@ EXCEPT !.pc = "ready"]]
  /\ UNCHANGED <<authVars, app, exitCode, mainModule>>

\* handler resumes: app.ready(cb) emits the request on app.server.
Ready(c) ==
  /\ exitCode = Null
  /\ calls[c].pc = "ready"
  /\ calls' = [calls EXCEPT ![c] = [@ EXCEPT !.pc = "served"]]
  /\ UNCHANGED <<authVars, app, appInstance, exitCode, mainModule>>

NextServer ==
  \E c \in Calls :
    \/ RunMain(c)
    \/ Invoke(c)
    \/ StageOk(c)
    \/ StageFails(c)
    \/ ListenOk(c)
    \/ ListenFails(c)
    \/ GetServerResume(c)
    \/ Ready(c)

\* The process right after its modules are loaded.
InitServer ==
  /\ app = FreshApp
  /\ appInstance = Null
  /\ calls = [c \in Calls |-> IdleCall]
  /\ exitCode = Null
  /\ mainModule \in BOOLEAN

\* A process whose startServer() has returned: every plugin and route is
\* registered once and the server listens.
InitStarted ==
  /\ app = [registered |-> [p \in Plugins |-> 1], health |-> 1, listening |-> TRUE]
  /\ appInstance = Null
  /\ calls = [c \in Calls |->
       IF c = 1
       THEN [IdleCall EXCEPT !.pc = "returned", !.started = TRUE,
                             !.listenCalled = TRUE, !.returned = Some("app")]
       ELSE IdleCall]
  /\ exitCode = Null
  /\ mainModule = TRUE

\* No request is in flight while the process starts.
InitNoRequests ==
  /\ users = {}
  /\ reqs = [r \in Reqs |-> IdleReq]
  /\ log = {}
  /\ production \in BOOLEAN

\* The request handlers of a started server.
Init == InitAuth /\ InitStarted
Next == NextAuth
Spec == Init /\ [][Next]_vars

\* The start of a process, local or serverless.
InitStart == InitNoRequests /\ InitServer
NextStart == NextServer
SpecStart == InitStart /\ [][NextStart]_vars

\* ------------------------------------------------------------------- claims
Done(r, kind) == reqs[r].kind = kind /\ reqs[r].pc = "done"
Logged(r) == \E e \in log : e.who = r /\ e.what = "Supabase Error:"
RowsOf(email) == {u \in users : u.email = email}

\* C1: a register request for an email that already has a row always ends
\* in DuplicateUser (409, 'already exists') and creates no row.
C1_KnownEmailIsDuplicate ==
  \A r \in Reqs :
    (Done(r, "register") /\ reqs[r].known) =>
      /\ reqs[r].reply = send(409, [message |-> "User with this email already exists."], {})
      /\ reqs[r].inserted.data = Null

\* C2 as stated: a register request with an email that has no row adds exactly
\* one row and returns 201 with that row's id, and any later login request
\* with the same email and password ends in 200 with a token.
C2_FreshRegisterAlwaysCreates ==
  \A r \in Reqs :
    (Done(r, "register") /\ ~reqs[r].known) =>
      /\ reqs[r].reply.status = 201
      /\ \A l \in Reqs :
           ( Done(l, "login") /\ reqs[l].known
             /\ reqs[l].body.email = reqs[r].body.email
             /\ reqs[l].body.password = reqs[r].body.password ) =>
             (reqs[l].reply.status = 200 /\ "token" \in DOMAIN reqs[l].reply.body)

\* C2 as amended: a register request with an email that has no row, whose
\* insert the store accepts, adds exactly one row and returns 201 with that
\* row's id; any later login request with the same email and password whose
\* lookup the store answers ends in 200 with a token.
C2_AcceptedRegisterCreates ==
  \A r \in Reqs :
    (Done(r, "register") /\ ~reqs[r].known /\ reqs[r].inserted.data # Null) =>
      /\ reqs[r].reply.status = 201
      /\ DOMAIN reqs[r].reply.body = {"userId"}
      /\ Cardinality(RowsOf(reqs[r].body.email)) = 1
      /\ \A u \in RowsOf(reqs[r].body.email) : u.id = reqs[r].reply.body.userId
      /\ Cardinality({u \in users : u.id = reqs[r].reply.body.userId}) = 1
      /\ \A q \in Reqs :
           (q # r /\ Done(q, "register") /\ reqs[q].reply.status = 201) =>
             reqs[q].reply.body.userId # reqs[r].reply.body.userId
      /\ \A l \in Reqs :
           ( Done(l, "login") /\ reqs[l].known
             /\ reqs[l].body.email = reqs[r].body.email
             /\ reqs[l].body.password = reqs[r].body.password
             /\ reqs[l].lookup.error # Unavailable ) =>
             (reqs[l].reply.status = 200 /\ "token" \in DOMAIN reqs[l].reply.body)

C2_Witness ==
  \E r, l \in Reqs :
    /\ Done(r, "register") /\ ~reqs[r].known /\ reqs[r].reply.status = 201
    /\ Done(l, "login") /\ reqs[l].known
    /\ reqs[l].body = reqs[r].body
    /\ reqs[l].reply.status = 200

\* C3: no two user rows share an email; of the register requests for one
\* email at most one inserts a row and gets 201, and every other one gets 409.
C3_EmailUnique ==
  /\ \A u, v \in users : u.email = v.email => u = v
  /\ \A r \in Reqs :
       Done(r, "register") =>
         /\ reqs[r].reply.status \in {201, 409}
         /\ reqs[r].reply.status = 201 <=> reqs[r].inserted.data # Null
         /\ \A q \in Reqs :
              ( q # r /\ Done(q, "register")
                /\ reqs[q].body.email = reqs[r].body.email
                /\ reqs[r].reply.status = 201 ) => reqs[q].reply.status = 409

\* Two register requests for one fresh email both found no row; one got 201
\* and the store refused the other's insert.
C3_Witness ==
  \E r, q \in Reqs :
    /\ Done(r, "register") /\ Done(q, "register") /\ r # q
    /\ reqs[r].body.email = reqs[q].body.email
    /\ ~reqs[r].known /\ ~reqs[q].known
    /\ reqs[r].lookup.error = NotSingle /\ reqs[q].lookup.error = NotSingle
    /\ reqs[r].reply.status = 201
    /\ reqs[q].reply.status = 409 /\ reqs[q].inserted.error = UniqueViolationCode

\* C4: the login response to an unknown email and the login response to a
\* registered email with a wrong password are identical (status, body, cookies).
C4_NoUserEnumeration ==
  \A l, m \in Reqs :
    ( Done(l, "login") /\ reqs[l].lookup.error = NotSingle
      /\ Done(m, "login") /\ reqs[m].lookup.data # Null /\ ~reqs[m].passwordMatch ) =>
      reqs[l].reply = reqs[m].reply

\* C5 as stated: for a registered user, a login request with the correct
\* password ends in 200 with a token whose payload's userId is that user's id,
\* sent both in the body and as the auth_token cookie (HttpOnly, path /,
\* max-age 604800 matching the token's 7-day expiry).
C5_Success(l) ==
  \E u \in RowsOf(reqs[l].body.email) :
    /\ reqs[l].reply.status = 200
    /\ DOMAIN reqs[l].reply.body = {"message", "token"}
    /\ reqs[l].reply.body.token.payload = [userId |-> u.id]
    /\ reqs[l].reply.body.token.expiresIn = 604800
    /\ Cardinality(reqs[l].reply.cookies) = 1
    /\ \A c \in reqs[l].reply.cookies :
         /\ c.name = "auth_token" /\ c.value = reqs[l].reply.body.token
         /\ c.httpOnly /\ c.path = "/" /\ c.maxAge = 604800
         /\ c.secure = production

C5_CorrectPassword(l) ==
  /\ Done(l, "login") /\ reqs[l].known
  /\ \E u \in RowsOf(reqs[l].body.email) :
       bcrypt(reqs[l].body.password, u.password.salt, u.password.cost)
         = u.password.digest

C5_CorrectPasswordAlwaysLogsIn ==
  \A l \in Reqs : C5_CorrectPassword(l) => C5_Success(l)

\* C5 as amended: the same, for a login request whose lookup the store answers.
C5_CorrectPasswordLogsIn ==
  \A l \in Reqs :
    (C5_CorrectPassword(l) /\ reqs[l].lookup.error # Unavailable) => C5_Success(l)

C5_Witness ==
  \E l \in Reqs :
    C5_CorrectPassword(l) /\ reqs[l].lookup.error = NoError /\ C5_Success(l)

\* C6: a login request whose email has no row when the handler looks it up
\* ends there in 401, whatever the password: no comparison is made, no token
\* is signed and no cookie is set.
C6_UnknownEmailRejected ==
  [][ \A r \in Reqs :
        ( reqs[r].kind = "login" /\ reqs[r].pc = "lookup" /\ reqs'[r].pc # "lookup"
          /\ ~HasRow(reqs[r].body.email) ) =>
          /\ reqs'[r].pc = "done"
          /\ reqs'[r].reply.status = 401
          /\ DOMAIN reqs'[r].reply.body = {"message"}
          /\ reqs'[r].reply.cookies = {}
          /\ reqs'[r].token = Null
          /\ ~reqs'[r].passwordMatch ]_vars

C6_Witness ==
  \E r \in Reqs :
    /\ Done(r, "login") /\ ~HasRow(reqs[r].body.email)
    /\ reqs[r].lookup.error = NotSingle
    /\ reqs[r].reply.status = 401 /\ reqs[r].token = Null

\* C7: a login request for a registered user whose password does not match
\* the stored hash ends in 401 with no token and no cookie; a token is signed
\* only after the lookup and then the comparison have both succeeded.
C7_WrongPasswordRejected ==
  \A l \in Reqs :
    /\ ( reqs[l].kind = "login" /\ reqs[l].pc \in {"sign", "done"}
         /\ reqs[l].lookup.data # Null
         /\ \A u \in reqs[l].lookup.data :
              bcrypt(reqs[l].body.password, u.password.salt, u.password.cost)
                # u.password.digest ) =>
         /\ reqs[l].pc = "done"
         /\ reqs[l].reply.status = 401
         /\ DOMAIN reqs[l].reply.body = {"message"}
         /\ reqs[l].reply.cookies = {}
         /\ reqs[l].token = Null
    /\ ( reqs[l].pc = "sign" \/ reqs[l].token # Null
         \/ reqs[l].reply.cookies # {} \/ "token" \in DOMAIN reqs[l].reply.body ) =>
         /\ reqs[l].lookup.error = NoError /\ reqs[l].lookup.data # Null
         /\ reqs[l].passwordMatch

C7_Witness ==
  \E l \in Reqs :
    /\ Done(l, "login") /\ reqs[l].known
    /\ reqs[l].lookup.data # Null /\ ~reqs[l].passwordMatch
    /\ reqs[l].reply.status = 401

\* C8: every store failure during login or register ends in a 4xx reply, is
\* logged server-side, and the body carries only a short fixed message; a
\* failed insert creates no row.
C8_StoreFailed(r) ==
  \/ reqs[r].lookup.error = Unavailable
  \/ reqs[r].inserted.error # NoError

C8_StoreFailuresLogged4xx ==
  \A r \in Reqs :
    (reqs[r].pc = "done" /\ C8_StoreFailed(r)) =>
      /\ reqs[r].reply.status \in {401, 409}
      /\ DOMAIN reqs[r].reply.body = {"message"}
      /\ Logged(r)
      /\ reqs[r].inserted.error # NoError => reqs[r].inserted.data = Null

\* C9: when startServer fails, in non-serverless mode the process exits with
\* code 1 and nothing is returned, and in serverless mode the error is
\* rethrown; in serverless mode app.listen is never called, and no call
\* returns an app after a failure.
C9_StartupFailure ==
  \A c \in Calls :
    /\ (calls[c].error /\ ~calls[c].isServerless) =>
         (exitCode = Some(1) /\ calls[c].pc = "exited" /\ calls[c].returned = Null)
    /\ (calls[c].error /\ calls[c].isServerless) =>
         (calls[c].pc = "thrown" /\ calls[c].returned = Null /\ exitCode = Null)
    /\ calls[c].isServerless => (~calls[c].listenCalled /\ ~app.listening)
    /\ calls[c].returned # Null => ~calls[c].error
    /\ calls[c].error => \E e \in log : e.who = c

\* app.listen rejected in a local process, which then exited with code 1.
C9_Witness ==
  \E c \in Calls :
    /\ calls[c].error /\ calls[c].listenCalled
    /\ calls[c].pc = "exited" /\ exitCode = Some(1)

\* C10: across the serverless handler's invocations startServer(true) is
\* invoked at most once, so each plugin is registered on the shared app at
\* most once.
C10_StartedOnce ==
  /\ Cardinality({c \in Calls : calls[c].started /\ calls[c].isServerless}) <= 1
  /\ \A p \in Plugins : app.registered[p] <= 1

====
